---- MODULE Spec2Model ----
(***************************************************************************)
(* OneFolder: the two Rust fragments of the repository.                    *)
(*                                                                         *)
(*   Command Bridge      src/src-tauri/src/main.rs                         *)
(*       greet(name) formats a greeting; main registers it with the host   *)
(*       runtime, which then dispatches calls to it.                       *)
(*   Metadata Extractor  src/rust-examples/hello-rust/src/main.rs          *)
(*       main prints a line and calls read_files, which opens each path,   *)
(*       parses its Exif container and prints one line per field.          *)
(*                                                                         *)
(* Strings that the code builds character by character (the greeting) are  *)
(* sequences of one-character strings; a printed field line is the tuple   *)
(* of its three space-separated columns.                                   *)
(***************************************************************************)
EXTENDS Integers, Sequences, FiniteSets, TLC

VARIABLES
    \* ---- Command Bridge ----
    app,        \* "init" before Builder::run, "running" after
    calls,      \* the greet calls dispatched so far: [name, ok, result]
    \* ---- Metadata Extractor ----
    paths,      \* the array read_files iterates over
    fs,         \* the file system: path -> file content
    fs0,        \* the file system as it was when the first run started
    pc,         \* position of the process
    i,          \* index into paths of the path being processed
    k,          \* index of the next field of exif to print
    exif,       \* the parsed container of the current path
    out,        \* standard output: the lines printed so far
    lineOf,     \* for each line of out, the index of the path it came from
    opened,     \* the File::open calls made so far: [path, at]
    panic,      \* which unwrap panicked: "none", "open" or "parse"
    run,        \* 1 in the first run of the process, 2 in the second
    prev        \* outcome of the previous run: [pc, out, panic]

bridgeVars == <<app, calls>>
extractorVars ==
    <<paths, fs, fs0, pc, i, k, exif, out, lineOf, opened, panic, run, prev>>
vars == <<bridgeVars, extractorVars>>

(***************************************************************************)
(* Bounds                                                                  *)
(***************************************************************************)
MaxNameLen == 2     \* longest enumerated name passed to greet
MaxCalls == 3       \* greet calls in one behaviour
MaxPaths == 2       \* longest path array
MaxFields == 2      \* most fields in one container

(***************************************************************************)
(* Helpers on sequences                                                    *)
(***************************************************************************)
SeqsUpTo(S, n) == UNION {[1..m -> S] : m \in 0..n}

Range(s) == {s[j] : j \in DOMAIN s}

IsPrefix(s, t) == Len(s) <= Len(t) /\ SubSeq(t, 1, Len(s)) = s

Contains(s, sub) ==
    \E j \in 0..(Len(s) - Len(sub)) : SubSeq(s, j + 1, j + Len(sub)) = sub

(***************************************************************************)
(* Command Bridge                                                          *)
(***************************************************************************)

\* The format string of greet, as written in the source.
GreetTemplate == <<
    "H", "e", "l", "l", "o", ",", " ", "{", "}", "!", " ", "Y", "o", "u",
    "'", "v", "e", " ", "b", "e", "e", "n", " ", "g", "r", "e", "e", "t",
    "e", "d", " ", "f", "r", "o", "m", " ", "R", "u", "s", "t", "!", "w",
    "s", "d", "a", "s", "d" >>

World == <<"W", "o", "r", "l", "d">>

NameChars == {"{", "}"}

\* The names the front-end passes: every string over the format-significant
\* characters up to MaxNameLen, and "World".
Names == SeqsUpTo(NameChars, MaxNameLen) \cup {World}

FmtError == [ok |-> FALSE, val |-> <<>>]

\* format!: scan the format string left to right. "{{" and "}}" are the
\* escaped braces, "{}" takes the next positional argument and writes it
\* with Display (for &str: the string itself, unchanged); any other brace,
\* a missing argument or an unused argument is rejected.
RECURSIVE Fmt(_, _, _, _)
Fmt(tmpl, args, a, acc) ==
    IF tmpl = <<>>
    THEN IF a = Len(args) + 1 THEN [ok |-> TRUE, val |-> acc] ELSE FmtError
    ELSE IF Head(tmpl) = "{"
    THEN IF Len(tmpl) >= 2 /\ tmpl[2] = "{"
         THEN Fmt(Tail(Tail(tmpl)), args, a, Append(acc, "{"))
         ELSE IF Len(tmpl) >= 2 /\ tmpl[2] = "}"
         THEN IF a <= Len(args)
              THEN Fmt(Tail(Tail(tmpl)), args, a + 1, acc \o args[a])
              ELSE FmtError
         ELSE FmtError
    ELSE IF Head(tmpl) = "}"
    THEN IF Len(tmpl) >= 2 /\ tmpl[2] = "}"
         THEN Fmt(Tail(Tail(tmpl)), args, a, Append(acc, "}"))
         ELSE FmtError
    ELSE Fmt(Tail(tmpl), args, a, Append(acc, Head(tmpl)))

FormatStr(tmpl, args) == Fmt(tmpl, args, 1, <<>>)

\* The name is pasted into the format string instead of passed as argument.
greetSplice(name) ==
    FormatStr(SubSeq(GreetTemplate, 1, 7) \o name
                  \o SubSeq(GreetTemplate, 10, Len(GreetTemplate)), <<>>)

\* Only the first character of the name is embedded.
greetTruncate(name) ==
    FormatStr(GreetTemplate, <<SubSeq(name, 1, 1)>>)

\* The greeting depends on a call counter.
greetCounting(name) ==
    FormatStr(GreetTemplate, <<IF Len(calls) = 0 THEN name ELSE <<>> >>)

\* fn greet(name: &str) -> String
greet(name) == FormatStr(GreetTemplate, <<name>>)

BridgeInit ==
    /\ app = "init"
    /\ calls = <<>>

\* main: Builder::default().invoke_handler(generate_handler![greet]).run(..)
RunApp ==
    /\ app = "init"
    /\ app' = "running"
    /\ UNCHANGED <<calls, extractorVars>>

\* The host runtime dispatches one call of the registered command.
Invoke(name) ==
    /\ app = "running"
    /\ Len(calls) < MaxCalls
    /\ LET r == greet(name)
       IN calls' = Append(calls,
                          [name |-> name, ok |-> r.ok, result |-> r.val])
    /\ UNCHANGED <<app, extractorVars>>

(***************************************************************************)
(* Metadata Extractor                                                      *)
(***************************************************************************)

\* One parsed entry of a container: tag, image-file-directory number and
\* the displayable value.
FieldPool == {
    [tag |-> "XResolution", ifd_num |-> 0, value |-> "72"],
    [tag |-> "ResolutionUnit", ifd_num |-> 0, value |-> "cm"],
    [tag |-> "XResolution", ifd_num |-> 1, value |-> "300"] }

\* What a path can refer to: nothing, a file that is no valid container, or
\* a container with its fields in the order the container holds them (a
\* directory holds a tag at most once).
Absent == [kind |-> "absent", fields |-> <<>>]
Malformed == [kind |-> "malformed", fields |-> <<>>]
Container(fields) == [kind |-> "exif", fields |-> fields]

FieldLists ==
    {s \in SeqsUpTo(FieldPool, MaxFields) :
        \A a, b \in DOMAIN s : a # b => s[a] # s[b]}

Contents == {Absent, Malformed} \cup {Container(s) : s \in FieldLists}

\* The array literal of read_files; its first element is the one path of
\* the source, longer arrays exercise the loop over it.
PathName(j) ==
    IF j = 1 THEN "./monalisa.jpg" ELSE "./image" \o ToString(j) \o ".jpg"

PathLists == {[j \in 1..n |-> PathName(j)] : n \in 1..MaxPaths}

HelloLine == <<"Hello, world!">>

\* File::create in place of File::open: the file is created or truncated.
FileCreate(fsys, path) ==
    [ok |-> TRUE, fs |-> [fsys EXCEPT ![path] = Malformed]]

\* std::fs::File::open opens read-only: it fails when nothing is at the
\* path and changes nothing.
FileOpen(fsys, path) ==
    [ok |-> fsys[path].kind # "absent", fs |-> fsys]

\* A reader that rejects a container without fields.
ReadNonEmpty(file) ==
    [ok |-> file.kind = "exif" /\ file.fields # <<>>, fields |-> file.fields]

\* exif::Reader::read_from_container: the fields of the container, in the
\* container's order, or an error.
read_from_container(file) ==
    [ok |-> file.kind = "exif", fields |-> file.fields]

\* Display of the directory number f.ifd_num.
DisplayIn(n) ==
    IF n = 0 THEN "primary"
    ELSE IF n = 1 THEN "thumbnail"
    ELSE "IFD" \o ToString(n)

\* f.display_value().with_unit(&exif): a resolution is shown with the unit
\* that the ResolutionUnit field of the same directory names, inch when the
\* container has none.
UnitOf(e, ifd) ==
    LET js == {j \in DOMAIN e :
                  e[j].tag = "ResolutionUnit" /\ e[j].ifd_num = ifd}
    IN IF js = {} THEN "inch"
       ELSE e[CHOOSE j \in js : \A j2 \in js : j <= j2].value

WithUnit(f, e) ==
    IF f.tag = "XResolution"
    THEN f.value \o " pixels per " \o UnitOf(e, f.ifd_num)
    ELSE f.value

\* println!("{} {} {}", f.tag, f.ifd_num, f.display_value().with_unit(&exif))
FieldLine(f, e) == <<f.tag, DisplayIn(f.ifd_num), WithUnit(f, e)>>

NoRun == [pc |-> "none", out |-> <<>>, panic |-> "none"]

ExtractorInit ==
    /\ paths \in PathLists
    /\ fs \in [Range(paths) -> Contents]
    /\ fs0 = fs
    /\ pc = "main"
    /\ i = 0
    /\ k = 0
    /\ exif = <<>>
    /\ out = <<>>
    /\ lineOf = <<>>
    /\ opened = <<>>
    /\ panic = "none"
    /\ run = 1
    /\ prev = NoRun

\* main, with the two statements in the other order.
CallReadFilesFirst ==
    /\ pc = "main"
    /\ pc' = "for_path"
    /\ i' = 1
    /\ UNCHANGED <<bridgeVars, paths, fs, fs0, k, exif, out, lineOf, opened,
                   panic, run, prev>>

\* main: println!("Hello, world!"); then the call of read_files.
PrintHello ==
    /\ pc = "main"
    /\ out' = Append(out, HelloLine)
    /\ lineOf' = Append(lineOf, 0)
    /\ pc' = "for_path"
    /\ i' = 1
    /\ UNCHANGED <<bridgeVars, paths, fs, fs0, k, exif, opened, panic, run,
                   prev>>

\* File::open(path), with the failure skipped instead of unwrapped.
OpenFileOrSkip ==
    /\ pc = "for_path"
    /\ i <= Len(paths)
    /\ LET r == FileOpen(fs, paths[i])
       IN /\ fs' = r.fs
          /\ opened' = Append(opened, [path |-> i, at |-> Len(out)])
          /\ IF r.ok
             THEN pc' = "parse" /\ i' = i
             ELSE pc' = "for_path" /\ i' = i + 1
    /\ UNCHANGED <<bridgeVars, paths, fs0, k, exif, out, lineOf, panic, run,
                   prev>>

\* let file = std::fs::File::open(path).unwrap();
OpenFile ==
    /\ pc = "for_path"
    /\ i <= Len(paths)
    /\ LET r == FileOpen(fs, paths[i])
       IN /\ fs' = r.fs
          /\ opened' = Append(opened, [path |-> i, at |-> Len(out)])
          /\ IF r.ok
             THEN pc' = "parse" /\ panic' = panic
             ELSE pc' = "aborted" /\ panic' = "open"
    /\ UNCHANGED <<bridgeVars, paths, fs0, i, k, exif, out, lineOf, run,
                   prev>>

\* let exif = exifreader.read_from_container(&mut bufreader).unwrap();
ReadContainer ==
    /\ pc = "parse"
    /\ LET r == read_from_container(fs[paths[i]])
       IN IF r.ok
          THEN /\ exif' = r.fields
               /\ k' = 1
               /\ pc' = "fields"
               /\ panic' = panic
          ELSE /\ pc' = "aborted"
               /\ panic' = "parse"
               /\ UNCHANGED <<exif, k>>
    /\ UNCHANGED <<bridgeVars, paths, fs, fs0, i, out, lineOf, opened, run,
                   prev>>

\* The body of "for f in exif.fields()", with the fields taken from the end.
PrintFieldReversed ==
    /\ pc = "fields"
    /\ k <= Len(exif)
    /\ out' = Append(out, FieldLine(exif[Len(exif) + 1 - k], exif))
    /\ lineOf' = Append(lineOf, i)
    /\ k' = k + 1
    /\ UNCHANGED <<bridgeVars, paths, fs, fs0, pc, i, exif, opened, panic,
                   run, prev>>

\* The body of "for f in exif.fields()": one println! per field.
PrintField ==
    /\ pc = "fields"
    /\ k <= Len(exif)
    /\ out' = Append(out, FieldLine(exif[k], exif))
    /\ lineOf' = Append(lineOf, i)
    /\ k' = k + 1
    /\ UNCHANGED <<bridgeVars, paths, fs, fs0, pc, i, exif, opened, panic,
                   run, prev>>

\* exif.fields() is exhausted: the outer loop goes to the next path.
EndOfFields ==
    /\ pc = "fields"
    /\ k > Len(exif)
    /\ i' = i + 1
    /\ pc' = "for_path"
    /\ UNCHANGED <<bridgeVars, paths, fs, fs0, k, exif, out, lineOf, opened,
                   panic, run, prev>>

\* The array is exhausted: read_files returns, and so does main.
Return ==
    /\ pc = "for_path"
    /\ i > Len(paths)
    /\ pc' = "done"
    /\ UNCHANGED <<bridgeVars, paths, fs, fs0, i, k, exif, out, lineOf,
                   opened, panic, run, prev>>

Ended == pc \in {"done", "aborted"}

\* The program is started a second time on the file system the first run
\* left behind.
Rerun ==
    /\ Ended
    /\ run = 1
    /\ run' = 2
    /\ prev' = [pc |-> pc, out |-> out, panic |-> panic]
    /\ pc' = "main"
    /\ i' = 0
    /\ k' = 0
    /\ exif' = <<>>
    /\ out' = <<>>
    /\ lineOf' = <<>>
    /\ opened' = <<>>
    /\ panic' = "none"
    /\ UNCHANGED <<bridgeVars, paths, fs, fs0>>

(***************************************************************************)
(* Specifications: the two programs are separate processes that share      *)
(* nothing, so each is checked on its own with the other one at rest.      *)
(***************************************************************************)
BridgeAtRest == app = "init" /\ calls = <<>>

ExtractorAtRest ==
    /\ paths = <<PathName(1)>>
    /\ fs = [p \in Range(paths) |-> Absent]
    /\ fs0 = fs
    /\ pc = "main"
    /\ i = 0
    /\ k = 0
    /\ exif = <<>>
    /\ out = <<>>
    /\ lineOf = <<>>
    /\ opened = <<>>
    /\ panic = "none"
    /\ run = 1
    /\ prev = NoRun

Init == BridgeInit /\ ExtractorAtRest

Next ==
    \/ RunApp
    \/ \E name \in Names : Invoke(name)

Spec == Init /\ [][Next]_vars

ExtractorSpecInit == ExtractorInit /\ BridgeAtRest

ExtractorNext ==
    \/ PrintHello
    \/ OpenFile
    \/ ReadContainer
    \/ PrintField
    \/ EndOfFields
    \/ Return
    \/ Rerun

ExtractorSpec == ExtractorSpecInit /\ [][ExtractorNext]_vars

(***************************************************************************)
(* Properties of the Command Bridge (checked under Spec)                   *)
(***************************************************************************)

\* The text before and after the embedded name.
GreetPrefix == <<"H", "e", "l", "l", "o", ",", " ">>

GreetSuffix == <<
    "!", " ", "Y", "o", "u", "'", "v", "e", " ", "b", "e", "e", "n", " ",
    "g", "r", "e", "e", "t", "e", "d", " ", "f", "r", "o", "m", " ", "R",
    "u", "s", "t", "!", "w", "s", "d", "a", "s", "d" >>

\* The suffix the documented greeting ends with.
DocumentedSuffix == <<
    "!", " ", "Y", "o", "u", "'", "v", "e", " ", "b", "e", "e", "n", " ",
    "g", "r", "e", "e", "t", "e", "d", " ", "f", "r", "o", "m", " ", "R",
    "u", "s", "t", "!" >>

\* C1: every call greet(name) returns exactly "Hello, " + name +
\* "! You've been greeted from Rust!", with nothing before or after it.
C1_ExactGreeting ==
    \A j \in DOMAIN calls :
        /\ calls[j].ok
        /\ calls[j].result = GreetPrefix \o calls[j].name \o DocumentedSuffix

\* C2: greet embeds its input verbatim into a fixed template: with the
\* constants P = GreetPrefix and S = GreetSuffix every call returns
\* P + name + S; so greet("") is P + S and greet("World") contains "World".
C2_VerbatimTemplate ==
    \A j \in DOMAIN calls :
        /\ calls[j].result = GreetPrefix \o calls[j].name \o GreetSuffix
        /\ calls[j].name = <<>> => calls[j].result = GreetPrefix \o GreetSuffix
        /\ calls[j].name = World => Contains(calls[j].result, World)

C2_Witness ==
    /\ \E j \in DOMAIN calls : calls[j].name = <<>>
    /\ \E j \in DOMAIN calls : calls[j].name = World
    /\ \E j \in DOMAIN calls : calls[j].name = <<"{", "}">>

\* C7: greet is total: whatever the name (empty, braces, any length) the
\* call returns a string and does not fail.
C7_Total ==
    \A j \in DOMAIN calls :
        /\ calls[j].ok
        /\ Len(calls[j].result) >= Len(calls[j].name)
        /\ app = "running"

C7_Witness ==
    /\ \E j \in DOMAIN calls : calls[j].name = <<>> /\ calls[j].ok
    /\ \E j \in DOMAIN calls : calls[j].name = <<"{">> /\ calls[j].ok
    /\ \E j \in DOMAIN calls : calls[j].name = <<"}", "{">> /\ calls[j].ok

\* C8: greet is deterministic and stateless: two calls with the same name
\* return the same string, whatever calls were made before or between them.
C8_Deterministic ==
    \A a, b \in DOMAIN calls :
        calls[a].name = calls[b].name =>
            /\ calls[a].result = calls[b].result
            /\ calls[a].ok = calls[b].ok

C8_Witness ==
    \E a, b, c \in DOMAIN calls :
        /\ a < b /\ b < c
        /\ calls[a].name = calls[c].name
        /\ calls[b].name # calls[a].name
        /\ calls[a].result = calls[c].result
        /\ calls[b].result # calls[a].result

(***************************************************************************)
(* Properties of the Metadata Extractor (checked under ExtractorSpec)      *)
(***************************************************************************)

\* The lines of out that path number p produced, in the order printed.
LinesOf(p) ==
    LET F[j \in 0..Len(out)] ==
            IF j = 0 THEN <<>>
            ELSE IF lineOf[j] = p THEN Append(F[j - 1], out[j])
            ELSE F[j - 1]
    IN F[Len(out)]

File(p) == fs[paths[p]]

IfdNums == {f.ifd_num : f \in FieldPool}

\* C3: a failure to open or to parse a file is fatal: the process aborts at
\* the failing path, prints no field line for it, opens and prints no later
\* path, and never returns from read_files (it never gets past the path).
C3_FailureIsFatal ==
    /\ pc = "aborted" =>
          /\ i \in 1..Len(paths)
          /\ File(i).kind # "exif"
          /\ panic = (IF File(i).kind = "absent" THEN "open" ELSE "parse")
          /\ LinesOf(i) = <<>>
          /\ \A j \in DOMAIN out : lineOf[j] < i
          /\ Len(opened) = i
          /\ \A o \in DOMAIN opened : opened[o].path = o
    /\ \A p \in 1..Len(paths) : i > p => File(p).kind = "exif"
    /\ pc = "done" => \A p \in 1..Len(paths) : File(p).kind = "exif"
    /\ pc # "aborted" => panic = "none"

C3_Witness ==
    /\ pc = "aborted"
    /\ panic = "parse"
    /\ i = 1
    /\ Len(paths) >= 2
    /\ File(2).kind = "exif"
    /\ File(2).fields # <<>>
    /\ out = <<HelloLine>>

\* C4: for a non-existent path the extractor reports an error without
\* aborting: every path after the failing one is still opened.
C4_MissingPathDoesNotAbort ==
    /\ pc = "aborted" => panic # "open"
    /\ Ended =>
          \A p \in 1..Len(paths) :
              File(p).kind = "absent" =>
                  \A q \in (p + 1)..Len(paths) :
                      \E o \in DOMAIN opened : opened[o].path = q

\* C5: for a well-formed file the printed lines are its fields: as many
\* lines as fields once the file is done, the m-th line is the m-th field
\* of the container, and its directory column names exactly the directory
\* number of that field.
C5_LinesMatchFields ==
    \A p \in 1..Len(paths) :
        File(p).kind = "exif" =>
            LET fl == File(p).fields
                ls == LinesOf(p)
            IN /\ Len(ls) <= Len(fl)
               /\ i > p => Len(ls) = Len(fl)
               /\ \A m \in DOMAIN ls :
                     /\ ls[m] = <<fl[m].tag, DisplayIn(fl[m].ifd_num),
                                  WithUnit(fl[m], fl)>>
                     /\ \A n \in IfdNums :
                           ls[m][2] = DisplayIn(n) <=> n = fl[m].ifd_num

C5_Witness ==
    /\ pc = "done"
    /\ \E p \in 1..Len(paths) :
          /\ Len(File(p).fields) = 2
          /\ File(p).fields[1].ifd_num = 1
          /\ File(p).fields[2].ifd_num = 0
          /\ Len(LinesOf(p)) = 2
          /\ LinesOf(p)[1][2] = "thumbnail"
          /\ LinesOf(p)[2][2] = "primary"

\* C6: a file that opens and parses but holds no field produces no line
\* and no failure: the run goes on to the next path or returns normally.
C6_EmptyContainer ==
    \A p \in 1..Len(paths) :
        File(p) = Container(<<>>) =>
            /\ LinesOf(p) = <<>>
            /\ ~(pc = "aborted" /\ i = p)
            /\ (Ended /\ \E o \in DOMAIN opened : opened[o].path = p) => i > p

C6_Witness ==
    /\ pc = "done"
    /\ Len(paths) >= 2
    /\ File(1) = Container(<<>>)
    /\ Len(opened) = Len(paths)
    /\ LinesOf(1) = <<>>
    /\ LinesOf(2) # <<>>

\* C9: a second run on the same files gives the same output as the first
\* (the same lines in the same order, or the same abort), and a run leaves
\* the file system as it found it.
C9_RerunIdentical ==
    /\ fs = fs0
    /\ run = 2 => IsPrefix(out, prev.out)
    /\ (run = 2 /\ Ended) =>
          /\ out = prev.out
          /\ pc = prev.pc
          /\ panic = prev.panic

C9_Witness ==
    /\ run = 2
    /\ pc = "aborted"
    /\ Len(out) >= 2
    /\ out = prev.out
    /\ prev.pc = "aborted"

\* C10: output is strictly ordered: "Hello, world!" is printed exactly
\* once and before any file is opened, also in a run that aborts; paths are
\* opened one at a time in list order, and all field lines of a path are
\* printed before the next path is opened.
C10_OrderedOutput ==
    /\ pc = "main" => out = <<>> /\ opened = <<>>
    /\ pc # "main" =>
          /\ Len(out) >= 1
          /\ out[1] = HelloLine
          /\ \A j \in 2..Len(out) : out[j] # HelloLine
    /\ \A o \in DOMAIN opened :
          /\ opened[o].path = o
          /\ opened[o].at >= 1
          /\ \A j \in DOMAIN out :
                /\ lineOf[j] < o => j <= opened[o].at
                /\ lineOf[j] >= o => j > opened[o].at
          /\ o >= 2 => Len(LinesOf(o - 1)) = Len(File(o - 1).fields)

C10_Witness ==
    /\ pc = "aborted"
    /\ Len(opened) = 2
    /\ LinesOf(1) # <<>>
    /\ out[1] = HelloLine
    /\ opened[2].at = Len(out)
====
